---- MODULE Spec2Model ----
(***************************************************************************)
(* Model of the GCS file-set reassembly function                           *)
(* (concatenate_data_files_in_gcs/main.py) and of the name filter of the   *)
(* Box relay (move_site_recruitment_data_from_gcs_box/main.py).            *)
(*                                                                         *)
(* A Python str is modelled as a sequence of one-character strings, so     *)
(* that substring tests, the regular expression, os.path.split, prefix     *)
(* listing and lexicographic comparison are computed character by          *)
(* character as the interpreter computes them.                             *)
(***************************************************************************)
EXTENDS Integers, Sequences, FiniteSets, TLC

(***************************************************************************)
(* String literals of the source.                                          *)
(***************************************************************************)
S_gs == <<"g","s",":","/","/">>
S_bucket == <<"d","e","i","d","e","n","t","i","f","i","e","d","_","s","i","t","e","_","r","e","c","r","u","i","t","m","e","n","t","_","d","a","t","a","_","p","r","o","d">>
S_slash == <<"/">>
S_tmp_slash == <<"t","m","p","/">>
S_HEADER == <<"H","E","A","D","E","R">>
S_boxfolder_tag == <<"_","b","o","x","f","o","l","d","e","r","_">>
S_fileid_tag == <<"_","f","i","l","e","i","d","_">>
S_slash_tmp_slash == <<"/","t","m","p","/">>
S_deid_box_folder == <<"_","d","e","i","d","e","n","t","i","f","i","e","d","_","r","e","c","r","u","i","t","m","e","n","t","_","d","a","t","a","_","b","o","x","_","f","o","l","d","e","r","_">>
S_file_id == <<"_","f","i","l","e","_","i","d","_">>
S_HEADER_mark == <<"_","H","E","A","D","E","R","_">>
S_csv == <<".","c","s","v">>
S_deid_boxfolder == <<"_","d","e","i","d","e","n","t","i","f","i","e","d","_","r","e","c","r","u","i","t","m","e","n","t","_","d","a","t","a","_","b","o","x","f","o","l","d","e","r","_">>

\* Python's None; a one-element tuple so that it compares with any str.
None == <<"None">>

\* The characters in use, in ascending code point order (str comparison).
CodePoints == <<"-",".","/","0","1","2","3","4","5","6","7","8","9",":","A","B","D","E","H","K","O","P","R","S","Y","_","a","b","c","d","e","f","g","i","l","m","n","o","p","r","s","t","u","v","w","x">>

Ord(c) == CHOOSE i \in 1..Len(CodePoints) : CodePoints[i] = c

\* \d of the re module, on the characters in use.
Digit == {"0","1","2","3","4","5","6","7","8","9"}

(***************************************************************************)
(* str primitives.                                                         *)
(***************************************************************************)
\* s[i:i+len(lit)] == lit, for a 1-based i
MatchLit(s, i, lit) ==
    /\ i >= 1
    /\ i + Len(lit) - 1 <= Len(s)
    /\ \A j \in 1..Len(lit) : s[i + j - 1] = lit[j]

\* `tag in s`
Contains(s, tag) == \E i \in 1..(Len(s) - Len(tag) + 1) : MatchLit(s, i, tag)

\* s.startswith(prefix): the object store's prefix filter
StartsWith(s, prefix) == MatchLit(s, 1, prefix)

\* a < b for two str: the first differing character decides, else the length
StrLess(a, b) ==
    LET n == IF Len(a) < Len(b) THEN Len(a) ELSE Len(b)
        d == {i \in 1..n : a[i] # b[i]}
    IN  IF d = {} THEN Len(a) < Len(b)
        ELSE LET i == CHOOSE x \in d : \A y \in d : x <= y
             IN  Ord(a[i]) < Ord(b[i])

\* s.rfind('/') + 1: the number of characters up to and including the last '/'
RFindSlash(s) ==
    LET at == {i \in 1..Len(s) : s[i] = "/"}
    IN  IF at = {} THEN 0 ELSE CHOOSE x \in at : \A y \in at : y <= x

\* s.rstrip('/')
RStripSlash(s) ==
    IF \A i \in 1..Len(s) : s[i] = "/" THEN <<>>
    ELSE SubSeq(s, 1, CHOOSE x \in 1..Len(s) :
                          s[x] # "/" /\ \A y \in (x + 1)..Len(s) : s[y] = "/")

\* os.path.split(p): (head, tail)
path_split(p) ==
    LET i == RFindSlash(p)
        head == SubSeq(p, 1, i)
        tail == SubSeq(p, i + 1, Len(p))
        allSlash == \A j \in 1..Len(head) : head[j] = "/"
    IN  <<IF head # <<>> /\ ~allSlash THEN RStripSlash(head) ELSE head, tail>>

\* s.split('/'): the list of the segments between the slashes
str_split(s) ==
    LET at == {i \in 1..Len(s) : s[i] = "/"}
        n == Cardinality(at)
        \* the j-th slash, with the ends of the str as slash 0 and n + 1
        pos(j) == IF j = 0 THEN 0
                  ELSE IF j = n + 1 THEN Len(s) + 1
                  ELSE CHOOSE i \in at : Cardinality({k \in at : k < i}) = j - 1
    IN  [j \in 1..(n + 1) |-> SubSeq(s, pos(j - 1) + 1, pos(j) - 1)]

\* os.path.join(a, b) for two path components
path_join(a, b) ==
    IF b # <<>> /\ b[1] = "/" THEN b
    ELSE IF a = <<>> \/ a[Len(a)] = "/" THEN a \o b
    ELSE a \o S_slash \o b

(***************************************************************************)
(* is_header_file                                                          *)
(***************************************************************************)
required_tags == <<S_tmp_slash, S_HEADER>>
forbidden_tags == <<S_boxfolder_tag, S_fileid_tag>>

\* variant for sensitivity runs: one required tag is enough
is_header_file_any_required(file_name) ==
    /\ \E t \in 1..Len(required_tags) : Contains(file_name, required_tags[t])
    /\ ~ \E t \in 1..Len(forbidden_tags) : Contains(file_name, forbidden_tags[t])

\* variant for sensitivity runs: the forbidden tags are not looked at
is_header_file_without_forbidden(file_name) ==
    \A t \in 1..Len(required_tags) : Contains(file_name, required_tags[t])

is_header_file(file_name) ==
    LET all_required_tags_present ==
            \A t \in 1..Len(required_tags) : Contains(file_name, required_tags[t])
        no_forbidden_tags_present ==
            ~ \E t \in 1..Len(forbidden_tags) : Contains(file_name, forbidden_tags[t])
    IN  all_required_tags_present /\ no_forbidden_tags_present

(***************************************************************************)
(* generate_output_file_path: the regular expression, matched as re does.  *)
(* Every repetition of the pattern is followed by a literal whose first    *)
(* character the repetition cannot consume, so the greedy run is the only  *)
(* candidate and no backtracking changes the result.                       *)
(***************************************************************************)
pattern_prefix == S_gs \o S_bucket \o S_slash

\* the end (exclusive) of the longest run from i of characters c with
\* (c = stop) = FALSE, or of digits when stop = "digit"
RunEnd(s, i, stop) ==
    LET ok(c) == IF stop = "digit" THEN c \in Digit ELSE c # stop
    IN  CHOOSE j \in i..(Len(s) + 1) :
            /\ \A k \in i..(j - 1) : ok(s[k])
            /\ (j = Len(s) + 1 \/ ~ok(s[j]))

NoMatch == [ok |-> FALSE, g1 |-> <<>>, g2 |-> <<>>, g3 |-> <<>>, g4 |-> <<>>]

\* the match of the pattern that starts at position i, if there is one
MatchAt(s, i) ==
    IF ~MatchLit(s, i, pattern_prefix) THEN NoMatch
    ELSE
    LET a1 == i + Len(pattern_prefix)           \* ([^/]+)
        e1 == RunEnd(s, a1, "/")
    IN  IF e1 = a1 \/ ~MatchLit(s, e1, S_slash_tmp_slash) THEN NoMatch
    ELSE
    LET a2 == e1 + Len(S_slash_tmp_slash)       \* ([^_]+)
        e2 == RunEnd(s, a2, "_")
    IN  IF e2 = a2 \/ ~MatchLit(s, e2, S_deid_box_folder) THEN NoMatch
    ELSE
    LET a3 == e2 + Len(S_deid_box_folder)       \* (\d{12})
        e3 == a3 + 12
    IN  IF e3 - 1 > Len(s) \/ (\E k \in a3..(e3 - 1) : s[k] \notin Digit)
           \/ ~MatchLit(s, e3, S_file_id) THEN NoMatch
    ELSE
    LET a4 == e3 + Len(S_file_id)               \* (\d{13})
        e4 == a4 + 13
    IN  IF e4 - 1 > Len(s) \/ (\E k \in a4..(e4 - 1) : s[k] \notin Digit)
           \/ ~MatchLit(s, e4, S_HEADER_mark) THEN NoMatch
    ELSE
    LET a5 == e4 + Len(S_HEADER_mark)           \* \d*
        e5 == RunEnd(s, a5, "digit")
    IN  IF ~MatchLit(s, e5, S_csv) THEN NoMatch
    ELSE [ok |-> TRUE,
          g1 |-> SubSeq(s, a1, e1 - 1), g2 |-> SubSeq(s, a2, e2 - 1),
          g3 |-> SubSeq(s, a3, e3 - 1), g4 |-> SubSeq(s, a4, e4 - 1)]

\* re.search(pattern, s): the match at the leftmost position that has one
re_search(s) ==
    LET starts == {i \in 1..Len(s) : MatchAt(s, i).ok}
    IN  IF starts = {} THEN NoMatch
        ELSE MatchAt(s, CHOOSE x \in starts : \A y \in starts : x <= y)

generate_output_file_path(input_file_path) ==
    LET match == re_search(input_file_path)
    IN  IF match.ok
        THEN LET healthcare_site_folder == match.g1
                 healthcare_site == match.g2
                 box_folder_id == match.g3
                 file_id == match.g4
             IN  S_bucket \o S_slash \o healthcare_site_folder \o S_slash
                 \o healthcare_site \o S_deid_boxfolder \o box_folder_id
                 \o S_fileid_tag \o file_id \o S_csv
        ELSE None

(***************************************************************************)
(* Names.  In the state an object name, a prefix or a bucket name is a     *)
(* string; every function of the source works on its characters, Chars(n). *)
(* The names are those of the export convention (the example event of the  *)
(* source and the names in its comments), and variations of them.          *)
(***************************************************************************)
S_SiteA == <<"S","i","t","e","A">>
S_extra == <<"e","x","t","r","a">>
S_x == <<"x">>
S_tmp == <<"t","m","p">>
S_d12 == <<"1","2","3","4","5","6","7","8","9","0","1","2">>
S_d11 == <<"1","2","3","4","5","6","7","8","9","0","1">>
S_d13 == <<"1","2","3","4","5","6","7","8","9","0","1","2","3">>
S_d13b == <<"9","9","9","9","9","9","9","9","9","9","9","9","9">>
S_shard0 == <<"0","0","0","0","0","0","0","0","0","0","0","0">>
S_shard1 == <<"0","0","0","0","0","0","0","0","0","0","0","1">>
S_BODY_mark == <<"_","B","O","D","Y","_">>
\* the parts of the name in example_file_obj
S_Kaiser == <<"K","a","i","s","e","r","P","e","r","m","a","n","e","n","t","e","-","H","a","w","a","i","i">>
S_ex_d12 == <<"2","2","7","9","6","0","8","7","9","9","3","0">>
S_ex_d13 == <<"1","3","1","8","2","2","6","7","8","5","3","7","2">>

B_prod == "deidentified_site_recruitment_data_prod"
N_header == "SiteA/tmp/SiteA_deidentified_recruitment_data_box_folder_123456789012_file_id_1234567890123_HEADER_000000000000.csv"
N_body0 == "SiteA/tmp/SiteA_deidentified_recruitment_data_box_folder_123456789012_file_id_1234567890123_BODY_000000000000.csv"
N_body1 == "SiteA/tmp/SiteA_deidentified_recruitment_data_box_folder_123456789012_file_id_1234567890123_BODY_000000000001.csv"
N_header2 == "SiteA/tmp/SiteA_deidentified_recruitment_data_box_folder_123456789012_file_id_9999999999999_HEADER_000000000000.csv"
N_other == "SiteA/tmp/x.csv"
\* an object name that holds the whole pattern of generate_output_file_path
N_gsheader == "gs://deidentified_site_recruitment_data_prod/SiteA/tmp/SiteA_deidentified_recruitment_data_box_folder_123456789012_file_id_1234567890123_HEADER_000000000000.csv"
\* a header name with an extra path segment before tmp
N_extraseg == "SiteA/extra/tmp/SiteA_deidentified_recruitment_data_box_folder_123456789012_file_id_1234567890123_HEADER_000000000000.csv"
P_SiteA_tmp == "SiteA/tmp"
P_extra_tmp == "extra/tmp"
\* what generate_output_file_path builds for the export of N_header
O_prod_SiteA == "deidentified_site_recruitment_data_prod/SiteA/SiteA_deidentified_recruitment_data_boxfolder_123456789012_fileid_1234567890123.csv"
\* the canonical output key of that export in the bucket
O_SiteA == "SiteA/SiteA_deidentified_recruitment_data_boxfolder_123456789012_fileid_1234567890123.csv"

\* a header name with path segments after the part the pattern matches
N_trailing == "gs://deidentified_site_recruitment_data_prod/SiteA/tmp/SiteA_deidentified_recruitment_data_box_folder_123456789012_file_id_1234567890123_HEADER_000000000000.csv/deidentified_site_recruitment_data_prod/SiteA/x"
P_prod_SiteA == "deidentified_site_recruitment_data_prod/SiteA"
\* example_file_obj['name'] and its staging folder
N_example == "KaiserPermanente-Hawaii/tmp/KaiserPermanente-Hawaii_deidentified_recruitment_data_box_folder_227960879930_file_id_1318226785372_HEADER_000000000000.csv"
P_Kaiser_tmp == "KaiserPermanente-Hawaii/tmp"

StrTable == <<
    <<"None", None>>,
    <<B_prod, S_bucket>>,
    <<N_header, S_SiteA \o S_slash_tmp_slash \o S_SiteA \o S_deid_box_folder \o S_d12 \o S_file_id \o S_d13 \o S_HEADER_mark \o S_shard0 \o S_csv>>,
    <<N_body0, S_SiteA \o S_slash_tmp_slash \o S_SiteA \o S_deid_box_folder \o S_d12 \o S_file_id \o S_d13 \o S_BODY_mark \o S_shard0 \o S_csv>>,
    <<N_body1, S_SiteA \o S_slash_tmp_slash \o S_SiteA \o S_deid_box_folder \o S_d12 \o S_file_id \o S_d13 \o S_BODY_mark \o S_shard1 \o S_csv>>,
    <<N_header2, S_SiteA \o S_slash_tmp_slash \o S_SiteA \o S_deid_box_folder \o S_d12 \o S_file_id \o S_d13b \o S_HEADER_mark \o S_shard0 \o S_csv>>,
    <<N_other, S_SiteA \o S_slash_tmp_slash \o S_x \o S_csv>>,
    <<N_gsheader, S_gs \o S_bucket \o S_slash \o S_SiteA \o S_slash_tmp_slash \o S_SiteA \o S_deid_box_folder \o S_d12 \o S_file_id \o S_d13 \o S_HEADER_mark \o S_shard0 \o S_csv>>,
    <<N_extraseg, S_SiteA \o S_slash \o S_extra \o S_slash_tmp_slash \o S_SiteA \o S_deid_box_folder \o S_d12 \o S_file_id \o S_d13 \o S_HEADER_mark \o S_shard0 \o S_csv>>,
    <<P_SiteA_tmp, S_SiteA \o S_slash \o S_tmp>>,
    <<P_extra_tmp, S_extra \o S_slash \o S_tmp>>,
    <<O_prod_SiteA, S_bucket \o S_slash \o S_SiteA \o S_slash \o S_SiteA \o S_deid_boxfolder \o S_d12 \o S_fileid_tag \o S_d13 \o S_csv>>,
    <<O_SiteA, S_SiteA \o S_slash \o S_SiteA \o S_deid_boxfolder \o S_d12 \o S_fileid_tag \o S_d13 \o S_csv>>,
    <<N_example, S_Kaiser \o S_slash_tmp_slash \o S_Kaiser \o S_deid_box_folder \o S_ex_d12 \o S_file_id \o S_ex_d13 \o S_HEADER_mark \o S_shard0 \o S_csv>>,
    <<P_Kaiser_tmp, S_Kaiser \o S_slash \o S_tmp>>,
    <<N_trailing, S_gs \o S_bucket \o S_slash \o S_SiteA \o S_slash_tmp_slash \o S_SiteA \o S_deid_box_folder \o S_d12 \o S_file_id \o S_d13 \o S_HEADER_mark \o S_shard0 \o S_csv \o S_slash \o S_bucket \o S_slash \o S_SiteA \o S_slash \o S_x>>,
    <<P_prod_SiteA, S_bucket \o S_slash \o S_SiteA>> >>

\* the characters of a name
Chars(n) == StrTable[CHOOSE j \in DOMAIN StrTable : StrTable[j][1] = n][2]

\* the name with these characters
Str(t) == StrTable[CHOOSE j \in DOMAIN StrTable : StrTable[j][2] = t][1]

(***************************************************************************)
(* list_bucket_blobs: the ordering of the listing.                         *)
(***************************************************************************)
\* variant for sensitivity runs: every blob gets the same first component
blob_sort_key_no_header_rank(blob_name) == <<1, blob_name>>

blob_sort_key(blob_name) ==
    IF Contains(blob_name, S_HEADER) THEN <<0, blob_name>> ELSE <<1, blob_name>>

\* k1 < k2 for two (int, str) tuples
TupleLess(k1, k2) ==
    \/ k1[1] < k2[1]
    \/ k1[1] = k2[1] /\ StrLess(k1[2], k2[2])

\* list.sort(key=blob_sort_key) is stable: an element goes after every
\* element already placed whose key is not greater than its own
SortInsert(x, sorted) ==
    LET n == Cardinality({i \in 1..Len(sorted) :
                 ~TupleLess(blob_sort_key(Chars(x)),
                            blob_sort_key(Chars(sorted[i])))})
    IN  SubSeq(sorted, 1, n) \o <<x>> \o SubSeq(sorted, n + 1, Len(sorted))

RECURSIVE list_sort(_)
list_sort(blob_list) ==
    IF blob_list = <<>> THEN <<>>
    ELSE SortInsert(blob_list[Len(blob_list)],
                    list_sort(SubSeq(blob_list, 1, Len(blob_list) - 1)))

(***************************************************************************)
(* State.                                                                  *)
(***************************************************************************)
VARIABLES
    store,      \* the bucket: object name -> content
    ever,       \* the names of the objects created in the bucket so far
    inv,        \* per invocation slot: the locals of main() and its position
    uploaded,   \* an object was created since the last invocation began
    pending,    \* the names whose creation event the platform still has to deliver
    codec_in,  \* the str handed to a function of the naming codec
    arrival,    \* a listing as the store returns it, in arrival order
    ret         \* the function called last and what it returned

engine == <<store, ever, inv, uploaded, pending>>
vars == <<store, ever, inv, uploaded, pending, codec_in, arrival, ret>>

NoRet == [fn |-> "none", val |-> <<>>]

(***************************************************************************)
(* The bucket and the trigger.                                             *)
(***************************************************************************)
\* a key the event dict does not have: reading it raises KeyError
Absent == "absent"

\* the objects the exporter (or anyone) may create in the bucket
UploadNames == {N_header, N_body0, N_body1, N_gsheader, N_extraseg}

\* the bytes of each object, one token per object
ContentOf(name) ==
    CASE name = N_header -> <<"h">>
      [] name = N_body0 -> <<"b0">>
      [] name = N_body1 -> <<"b1">>
      [] name = N_gsheader -> <<"g">>
      [] OTHER -> <<"e">>

Put(st, name, content) ==
    [k \in DOMAIN st \cup {name} |-> IF k = name THEN content ELSE st[k]]

Remove(st, name) == [k \in DOMAIN st \ {name} |-> st[k]]

RECURSIVE Concat(_, _)
\* the bytes of the named objects, one after the other
Concat(st, names) ==
    IF names = <<>> THEN <<>> ELSE st[Head(names)] \o Concat(st, Tail(names))

\* one store call of an invocation, as it went
Call(op, arg, list, res, data) ==
    [op |-> op, arg |-> arg, list |-> list, res |-> res, data |-> data]

IdleInv ==
    [pc |-> "idle", name |-> Absent, bucket |-> Absent,
     site_tmp_folder |-> "", output_file_name |-> "None", blob_list |-> <<>>,
     i |-> 0, calls |-> <<>>, res |-> "none", again |-> FALSE,
     before |-> <<>>, before_clean |-> FALSE]

Procs == 1..2

\* the content an invocation composed, <<>> when it composed nothing
Wrote(v) ==
    LET ok == {j \in DOMAIN v.calls :
                  v.calls[j].op = "compose" /\ v.calls[j].res = "ok"}
    IN  IF ok = {} THEN <<>> ELSE v.calls[CHOOSE j \in ok : TRUE].data

\* no store call of the invocation failed
Clean(v) == \A j \in DOMAIN v.calls : v.calls[j].res # "error"

(***************************************************************************)
(* main(), one action per store call.                                      *)
(***************************************************************************)
\* main, lines 34-44: the listing prefix from bucket and name
site_tmp_folder_of(bucket, name) ==
    LET full_path == bucket \o S_slash \o name
        folder_path == path_split(full_path)[1]
        parts == str_split(folder_path)
    IN  path_join(parts[Len(parts) - 1], parts[Len(parts)])

\* main up to the first store call: the event is read and classified
main_start(ev) ==
    IF ev.name = Absent
    THEN [IdleInv EXCEPT !.res = "raise"]
    ELSE IF ~is_header_file(Chars(ev.name))
    THEN [IdleInv EXCEPT !.name = ev.name, !.bucket = ev.bucket,
                         !.res = "return"]
    ELSE IF ev.bucket = Absent
    THEN [IdleInv EXCEPT !.name = ev.name, !.bucket = ev.bucket,
                         !.res = "raise"]
    ELSE [IdleInv EXCEPT
            !.pc = "list", !.name = ev.name, !.bucket = ev.bucket,
            !.site_tmp_folder =
                Str(site_tmp_folder_of(Chars(ev.bucket), Chars(ev.name))),
            !.output_file_name =
                Str(generate_output_file_path(
                        Chars(ev.bucket) \o S_slash \o Chars(ev.name))),
            !.res = "running"]

\* an object is created in the bucket (the creation event is the caller's)
Upload(name) ==
    /\ store' = Put(store, name, ContentOf(name))
    /\ ever' = ever \cup {name}
    /\ uploaded' = TRUE
    /\ UNCHANGED <<inv, codec_in, arrival, ret>>

\* the events: the creation of an object of the bucket, and events
\* that lack a field
Events ==
    {[name |-> n, bucket |-> b] : n \in UploadNames \cup {N_trailing, Absent},
                                  b \in {B_prod, Absent}}

\* main_start, event by event
main_start_table == {<<ev, main_start(ev)>> : ev \in Events}

\* the platform hands an event to main(), in the lowest free slot; the
\* invocation notes whether it repeats the event of the invocation before
\* it with no object created since that one began, what that one composed,
\* and whether every store call of that one succeeded
Start(p, ev) ==
    /\ inv[p].pc = "idle"
    /\ \A q \in Procs : q < p => inv[q].pc # "idle"
    /\ ev.name \in ever \cup {Absent}
    /\ LET v == (CHOOSE r \in main_start_table : r[1] = ev)[2]
           again == /\ inv[p].res # "none"
                    /\ inv[p].name = ev.name
                    /\ inv[p].bucket = ev.bucket
                    /\ ~uploaded
       IN  inv' = [inv EXCEPT ![p] =
                     [v EXCEPT !.again = again,
                               !.before = IF again THEN Wrote(inv[p]) ELSE <<>>,
                               !.before_clean = again /\ Clean(inv[p])]]
    /\ uploaded' = FALSE
    /\ UNCHANGED <<store, ever, codec_in, arrival, ret>>

\* the invocation ends: the exception leaves main(), or main returns None
Ended(v, res) == [v EXCEPT !.pc = "idle", !.res = res]

\* bucket.list_blobs(prefix=folder_name), in every order
Listings(prefix) ==
    LET names == {k \in DOMAIN store : StartsWith(Chars(k), Chars(prefix))}
        n == Cardinality(names)
    IN  {a \in [1..n -> names] : \A x, y \in 1..n : a[x] = a[y] => x = y}

\* list_bucket_blobs: the store fails, or the sorted listing is returned
List(p) ==
    /\ inv[p].pc = "list"
    /\ \/ inv' = [inv EXCEPT ![p] =
                    Ended([@ EXCEPT !.calls = Append(@,
                        Call("list", inv[p].site_tmp_folder, <<>>, "error", <<>>))],
                          "raise")]
       \/ \E a \in Listings(inv[p].site_tmp_folder) :
            LET blob_list == list_sort(a)
            IN  inv' = [inv EXCEPT ![p] =
                      [@ EXCEPT !.pc = "compose", !.blob_list = blob_list,
                                !.calls = Append(@,
                        Call("list", inv[p].site_tmp_folder, blob_list, "ok", <<>>))]]
    /\ UNCHANGED <<store, ever, uploaded, pending, codec_in, arrival, ret>>

\* variant for sensitivity runs: main goes on to delete_blobs whatever concatenate_blobs did
main_after_concatenate_swallow(res) == "delete"

\* main, lines 58-62: delete_blobs runs only if concatenate_blobs returned
main_after_concatenate(res) == IF res = "ok" THEN "delete" ELSE "idle"

\* variant for sensitivity runs: an empty blob_list is composed like any other
concatenate_blobs_results_empty_ok(st, blob_list, target_blob_name) ==
    IF target_blob_name = "None" THEN {"raise"}
    ELSE IF \E j \in DOMAIN blob_list : blob_list[j] \notin DOMAIN st
    THEN {"error"}
    ELSE {"ok", "error"}

\* concatenate_blobs: "raise" when it fails before any request (blob_list[0]
\* of an empty list, a target name of None), "error" when the store refuses
\* the compose (always so when a source is gone), "ok" otherwise
concatenate_blobs_results(st, blob_list, target_blob_name) ==
    IF blob_list = <<>> \/ target_blob_name = "None" THEN {"raise"}
    ELSE IF \E j \in DOMAIN blob_list : blob_list[j] \notin DOMAIN st
    THEN {"error"}
    ELSE {"ok", "error"}

Compose(p) ==
    /\ inv[p].pc = "compose"
    /\ \E r \in concatenate_blobs_results(store, inv[p].blob_list,
                                          inv[p].output_file_name) :
         LET data == IF r = "ok" THEN Concat(store, inv[p].blob_list) ELSE <<>>
             c == Call("compose", inv[p].output_file_name, inv[p].blob_list,
                       r, data)
             nxt == main_after_concatenate(r)
         IN  /\ store' = IF r = "ok"
                         THEN Put(store, inv[p].output_file_name, data)
                         ELSE store
             /\ inv' = [inv EXCEPT ![p] =
                   [@ EXCEPT !.pc = nxt, !.i = 1, !.calls = Append(@, c),
                             !.res = IF nxt = "idle" THEN "raise" ELSE @]]
    /\ UNCHANGED <<ever, uploaded, pending, codec_in, arrival, ret>>

\* variant for sensitivity runs: no try/except, the first failed delete leaves main()
delete_blobs_next_abort(ok, i) ==
    IF ok THEN [pc |-> "delete", i |-> i + 1, res |-> "running"]
    ELSE [pc |-> "idle", i |-> i, res |-> "raise"]

\* delete_blobs, the loop: the next blob, whether the delete failed or not
delete_blobs_next(ok, i) == [pc |-> "delete", i |-> i + 1, res |-> "running"]

\* blob.delete() of the next blob of the list: it fails when the object is
\* gone, and may fail when it is there
Delete(p) ==
    /\ inv[p].pc = "delete"
    /\ inv[p].i <= Len(inv[p].blob_list)
    /\ LET name == inv[p].blob_list[inv[p].i]
       IN  \E ok \in {b \in BOOLEAN : b => name \in DOMAIN store} :
             LET nxt == delete_blobs_next(ok, inv[p].i)
             IN  /\ store' = IF ok THEN Remove(store, name) ELSE store
                 /\ inv' = [inv EXCEPT ![p] =
                       [@ EXCEPT !.pc = nxt.pc, !.i = nxt.i, !.res = nxt.res,
                                 !.calls = Append(@,
                           Call("delete", name, <<>>,
                                IF ok THEN "ok" ELSE "error", <<>>))]]
    /\ UNCHANGED <<ever, uploaded, pending, codec_in, arrival, ret>>

\* delete_blobs is through the list and main returns None
Return(p) ==
    /\ inv[p].pc = "delete"
    /\ inv[p].i > Len(inv[p].blob_list)
    /\ inv' = [inv EXCEPT ![p] = Ended(@, "return")]
    /\ UNCHANGED <<store, ever, uploaded, pending, codec_in, arrival, ret>>

EngineIdle ==
    /\ store = <<>>
    /\ ever = {}
    /\ inv = [p \in Procs |-> IdleInv]
    /\ uploaded = FALSE
    /\ pending = {}

Init ==
    /\ EngineIdle
    /\ codec_in = <<>>
    /\ arrival = <<>>
    /\ ret = NoRet

\* invocations one after the other: an event is handed over only when no
\* invocation is running
Next ==
    \/ \E name \in UploadNames : Upload(name) /\ UNCHANGED pending
    \/ \E p \in Procs, ev \in Events :
         /\ (\A q \in Procs : inv[q].pc = "idle") /\ Start(p, ev)
         /\ UNCHANGED pending
    \/ \E p \in Procs : List(p)
    \/ \E p \in Procs : Compose(p)
    \/ \E p \in Procs : Delete(p)
    \/ \E p \in Procs : Return(p)

Spec == Init /\ [][Next]_vars

(***************************************************************************)
(* Two invocations of main() that overlap: the platform delivers a second  *)
(* header event of the same staging folder while the first invocation is   *)
(* still running.  The export is staged before the first event arrives.    *)
(***************************************************************************)
StagedExport == {N_header, N_body0, N_body1, N_gsheader}

HeaderEvents ==
    {[name |-> n, bucket |-> B_prod] : n \in {N_header, N_gsheader}}

InitConcurrent ==
    /\ store = [n \in StagedExport |-> ContentOf(n)]
    /\ ever = StagedExport
    /\ inv = [p \in Procs |-> IdleInv]
    /\ uploaded = FALSE
    /\ pending = {}
    /\ codec_in = <<>>
    /\ arrival = <<>>
    /\ ret = NoRet

\* each slot takes one event; the second one starts while the first runs
StartOnce(p, ev) == inv[p].res = "none" /\ Start(p, ev) /\ UNCHANGED pending

NextConcurrent ==
    \/ \E p \in Procs, ev \in HeaderEvents : StartOnce(p, ev)
    \/ \E p \in Procs : List(p)
    \/ \E p \in Procs : Compose(p)
    \/ \E p \in Procs : Delete(p)
    \/ \E p \in Procs : Return(p)

SpecConcurrent == InitConcurrent /\ [][NextConcurrent]_vars

(***************************************************************************)
(* Two exports of the same site staged in the same tmp folder: the objects *)
(* of the export with file id 1234567890123 and the header of the export   *)
(* with file id 9999999999999.  Header events of the first are delivered.  *)
(***************************************************************************)
StagedTwoExports == {N_header, N_body0, N_gsheader, N_header2}

InitTwoExports ==
    /\ store = [n \in StagedTwoExports |-> ContentOf(n)]
    /\ ever = StagedTwoExports
    /\ inv = [p \in Procs |-> IdleInv]
    /\ uploaded = FALSE
    /\ pending = {}
    /\ codec_in = <<>>
    /\ arrival = <<>>
    /\ ret = NoRet

SpecTwoExports == InitTwoExports /\ [][NextConcurrent]_vars

(***************************************************************************)
(* The bucket with an export staged and two objects whose names hold the   *)
(* whole pattern of generate_output_file_path, one of them followed by     *)
(* further path segments.  Header events are delivered one after the other.*)
(***************************************************************************)
StagedWithTrailing == {N_header, N_body0, N_gsheader, N_trailing}

TrailingEvents ==
    {[name |-> n, bucket |-> B_prod] : n \in {N_gsheader, N_trailing}}

InitTrailing ==
    /\ store = [n \in StagedWithTrailing |-> ContentOf(n)]
    /\ ever = StagedWithTrailing
    /\ inv = [p \in Procs |-> IdleInv]
    /\ uploaded = FALSE
    /\ pending = {}
    /\ codec_in = <<>>
    /\ arrival = <<>>
    /\ ret = NoRet

NextTrailing ==
    \/ \E p \in Procs, ev \in TrailingEvents :
         /\ (\A q \in Procs : inv[q].pc = "idle") /\ Start(p, ev)
         /\ UNCHANGED pending
    \/ \E p \in Procs : List(p)
    \/ \E p \in Procs : Compose(p)
    \/ \E p \in Procs : Delete(p)
    \/ \E p \in Procs : Return(p)

SpecTrailing == InitTrailing /\ [][NextTrailing]_vars

(***************************************************************************)
(* The export of one file, with the trigger of the platform: every object  *)
(* created in the bucket has its creation event delivered to main(), once, *)
(* at some later time.  Invocations run one after the other and each runs  *)
(* to its end.                                                             *)
(***************************************************************************)
LiveNames == {N_header, N_gsheader, N_body0, N_body1}

\* the exporter writes an object; the platform owes its creation event
UploadLive(name) ==
    /\ name \notin ever
    /\ Upload(name)
    /\ pending' = pending \cup {name}

\* the platform delivers the creation event of an object
Deliver(name) ==
    /\ name \in pending
    /\ \A q \in Procs : inv[q].pc = "idle"
    /\ \E p \in Procs : Start(p, [name |-> name, bucket |-> B_prod])
    /\ pending' = pending \ {name}

NextLive ==
    \/ \E name \in LiveNames : UploadLive(name)
    \/ \E name \in LiveNames : Deliver(name)
    \/ \E p \in Procs : List(p)
    \/ \E p \in Procs : Compose(p)
    \/ \E p \in Procs : Delete(p)
    \/ \E p \in Procs : Return(p)

SpecLive ==
    /\ Init
    /\ [][NextLive]_vars
    /\ \A name \in LiveNames : WF_vars(Deliver(name))
    /\ \A p \in Procs :
         WF_vars(List(p)) /\ WF_vars(Compose(p)) /\ WF_vars(Delete(p))
         /\ WF_vars(Return(p))

(***************************************************************************)
(* Loading the module.  Its last statement calls main(example_file_obj),   *)
(* so every instance of the function runs main() on the example event      *)
(* while it loads, before the platform hands it any event.  The exception  *)
(* that ends that call ends the load; the platform then loads the module   *)
(* again in a new instance.                                                *)
(***************************************************************************)
example_file_obj == [name |-> N_example, bucket |-> B_prod]

\* main(example_file_obj) up to its first store call
example_start == main_start(example_file_obj)

LoadNames == UploadNames \cup {N_example}

\* the module is loaded: main(example_file_obj) begins
Load ==
    /\ \A q \in Procs : inv[q].pc = "idle"
    /\ inv' = [inv EXCEPT ![1] = example_start]
    /\ uploaded' = FALSE
    /\ UNCHANGED <<store, ever, pending, codec_in, arrival, ret>>

\* generate_output_file_path gives None for the example event, so the call
\* ends in list_bucket_blobs or in concatenate_blobs: delete_blobs and the
\* return of main() are never reached from Load
NextLoad ==
    \/ \E name \in LoadNames : UploadLive(name)
    \/ Load
    \/ \E p \in Procs : List(p)
    \/ \E p \in Procs : Compose(p)

SpecLoad == Init /\ [][NextLoad]_vars

(***************************************************************************)
(* The naming codec applied to one str: is_header_file and                 *)
(* generate_output_file_path.                                              *)
(***************************************************************************)
In_prefix == {<<>>, S_bucket \o S_slash, S_gs \o S_bucket \o S_slash,
              S_bucket \o S_slash \o S_gs \o S_bucket \o S_slash}
In_folder == {S_SiteA, S_SiteA \o S_slash \o S_extra}
In_mid == {S_slash_tmp_slash, S_slash}
In_site == {S_SiteA, S_extra \o S_slash \o S_SiteA}
In_boxtag == {S_deid_box_folder, S_deid_boxfolder}
In_d12 == {S_d12, S_d11}
In_filetag == {S_file_id, S_fileid_tag}
In_role == {S_HEADER_mark, S_BODY_mark}
In_suffix == {S_shard0 \o S_csv, S_csv, S_shard0 \o S_csv \o S_x}

CodecInputs ==
    {p \o f \o m \o s \o b \o d \o t \o S_d13 \o r \o x :
        p \in In_prefix, f \in In_folder, m \in In_mid, s \in In_site,
        b \in In_boxtag, d \in In_d12, t \in In_filetag, r \in In_role,
        x \in In_suffix}

InitCodec ==
    /\ EngineIdle
    /\ codec_in \in CodecInputs
    /\ arrival = <<>>
    /\ ret = NoRet

Call_is_header_file ==
    /\ ret.fn = "none"
    /\ ret' = [fn |-> "is_header_file", val |-> is_header_file(codec_in)]
    /\ UNCHANGED <<codec_in, arrival, engine>>

Call_generate_output_file_path ==
    /\ ret.fn = "none"
    /\ ret' = [fn |-> "generate_output_file_path",
               val |-> generate_output_file_path(codec_in)]
    /\ UNCHANGED <<codec_in, arrival, engine>>

NextCodec == Call_is_header_file \/ Call_generate_output_file_path

SpecCodec == InitCodec /\ [][NextCodec]_vars

(***************************************************************************)
(* The two functions triggered by the creation of an object in the bucket: *)
(* the engine classifies its name with is_header_file, the relay to Box    *)
(* with fileToBeExported.  The object is one of the inputs, or the output  *)
(* that the engine composes under the name generate_output_file_path gave. *)
(***************************************************************************)
\* variant for sensitivity runs: the relay exports every object
fileToBeExported_always(file_name) == TRUE

fileToBeExported(file_name) ==
    IF Contains(file_name, S_boxfolder_tag) THEN TRUE ELSE FALSE

\* the engine composes the output: an object of that name is created
OutputCreated ==
    /\ ret.fn = "generate_output_file_path"
    /\ ret.val # None
    /\ codec_in' = ret.val
    /\ ret' = [fn |-> "compose", val |-> ret.val]
    /\ UNCHANGED <<arrival, engine>>

\* the creation event of the object reaches both functions
ObjectCreated ==
    /\ ret.fn \in {"none", "compose"}
    /\ ret' = [fn |-> "created",
               val |-> [output |-> ret.fn = "compose",
                        header |-> is_header_file(codec_in),
                        export |-> fileToBeExported(codec_in)]]
    /\ UNCHANGED <<codec_in, arrival, engine>>

\* the inputs of the codec, and header names whose site name itself holds
\* the two required tags, so that the output name holds them too
RelayInputs ==
    CodecInputs \cup
    {p \o S_SiteA \o S_slash_tmp_slash \o S_tmp_slash \o S_HEADER
       \o S_deid_box_folder \o S_d12 \o S_file_id \o S_d13 \o S_HEADER_mark
       \o S_shard0 \o S_csv : p \in In_prefix}

InitRelay ==
    /\ EngineIdle
    /\ codec_in \in RelayInputs
    /\ arrival = <<>>
    /\ ret = NoRet

NextRelay == Call_generate_output_file_path \/ OutputCreated \/ ObjectCreated

SpecRelay == InitRelay /\ [][NextRelay]_vars

(***************************************************************************)
(* The ordering policy applied to one listing.                             *)
(***************************************************************************)
MaxListing == 4

OrderNames == {N_header, N_body0, N_body1, N_header2, N_other}

\* every arrival order of every listing of at most MaxListing objects
Arrivals ==
    UNION {{a \in [1..n -> OrderNames] :
               \A i, j \in 1..n : a[i] = a[j] => i = j} : n \in 0..MaxListing}

InitOrder ==
    /\ EngineIdle
    /\ codec_in = <<>>
    /\ arrival \in Arrivals
    /\ ret = NoRet

Call_list_sort ==
    /\ ret.fn = "none"
    /\ ret' = [fn |-> "list_bucket_blobs", val |-> list_sort(arrival)]
    /\ UNCHANGED <<codec_in, arrival, engine>>

NextOrder == Call_list_sort

SpecOrder == InitOrder /\ [][NextOrder]_vars

(***************************************************************************)
(* Properties of the naming codec and of the ordering policy.              *)
(***************************************************************************)
\* t occurs in s as a contiguous slice
HasSub(s, t) ==
    \E i \in 1..Len(s) :
        i + Len(t) - 1 <= Len(s) /\ SubSeq(s, i, i + Len(t) - 1) = t

\* a sorts strictly before b by code point
LexBefore(a, b) ==
    \E k \in 1..(Len(b)) :
        /\ \A j \in 1..(k - 1) : j <= Len(a) /\ a[j] = b[j]
        /\ \/ k = Len(a) + 1
           \/ k <= Len(a) /\ Ord(a[k]) < Ord(b[k])

\* C6: is_header_file(key) is true exactly when key contains both "tmp/" and
\* "HEADER" and contains neither "_boxfolder_" nor "_fileid_"; for every other
\* key it is false (a boolean is returned for every key).
C6_HeaderIffTags ==
    ret.fn = "is_header_file" =>
        /\ ret.val \in BOOLEAN
        /\ ret.val <=> /\ HasSub(codec_in, S_tmp_slash)
                       /\ HasSub(codec_in, S_HEADER)
                       /\ ~HasSub(codec_in, S_boxfolder_tag)
                       /\ ~HasSub(codec_in, S_fileid_tag)

C6_Witness ==
    /\ ret.fn = "is_header_file"
    /\ ret.val = TRUE
    /\ codec_in = Chars(N_header)

\* the key naming conventions: staging header key and canonical output key
StagingHeaderKey(container, site_folder, site_name, shard) ==
    container \o S_slash \o site_folder \o S_slash_tmp_slash \o site_name
    \o S_deid_box_folder \o S_d12 \o S_file_id \o S_d13 \o S_HEADER_mark
    \o shard \o S_csv

CanonicalOutputKey(container, site_folder, site_name) ==
    container \o S_slash \o site_folder \o S_slash \o site_name
    \o S_deid_boxfolder \o S_d12 \o S_fileid_tag \o S_d13 \o S_csv

\* C7: for every key of the staging header form
\* <container>/<site_folder>/tmp/<site_name>_..._box_folder_<12>_file_id_<13>_HEADER_<digits>.csv,
\* the form main() builds as bucket + "/" + name, generate_output_file_path
\* returns the canonical output key
\* <container>/<site_folder>/<site_name>_..._boxfolder_<12>_fileid_<13>.csv.
C7_OutputKeyDerivation ==
    ret.fn = "generate_output_file_path" =>
        \A shard \in {S_shard0, <<>>} :
            codec_in = StagingHeaderKey(S_bucket, S_SiteA, S_SiteA, shard)
            => ret.val = CanonicalOutputKey(S_bucket, S_SiteA, S_SiteA)

\* C8: for a listing with exactly one key containing "HEADER", the sorted
\* listing is a permutation of the listing with that key first and all other
\* keys after it in ascending lexicographic order; these conditions fix the
\* result, so it is the same for every arrival order of the same set.
C8_HeaderFirstThenAscending ==
    (/\ ret.fn = "list_bucket_blobs"
     /\ Cardinality({i \in DOMAIN arrival : HasSub(Chars(arrival[i]), S_HEADER)}) = 1)
    => LET out == ret.val
       IN  /\ Len(out) = Len(arrival)
           /\ {out[i] : i \in DOMAIN out} = {arrival[i] : i \in DOMAIN arrival}
           /\ HasSub(Chars(out[1]), S_HEADER)
           /\ \A i \in 2..(Len(out) - 1) : LexBefore(Chars(out[i]), Chars(out[i + 1]))

C8_Witness ==
    /\ ret.fn = "list_bucket_blobs"
    /\ arrival = <<N_other, N_body1, N_header, N_body0>>
    /\ ret.val = <<N_header, N_body0, N_body1, N_other>>

(***************************************************************************)
(* Properties of main().                                                   *)
(***************************************************************************)
\* main() has ended: it returned, or an exception left it
Finished(v) == v.pc = "idle" /\ v.res \in {"return", "raise"}

\* the name carries the header tags and none of the relay tags
HeaderTagged(name) ==
    /\ HasSub(Chars(name), S_tmp_slash)
    /\ HasSub(Chars(name), S_HEADER)
    /\ ~HasSub(Chars(name), S_boxfolder_tag)
    /\ ~HasSub(Chars(name), S_fileid_tag)

\* the positions of the calls of one kind, and of those that succeeded
CallsOf(v, op) == {j \in DOMAIN v.calls : v.calls[j].op = op}
OkCallsOf(v, op) == {j \in CallsOf(v, op) : v.calls[j].res = "ok"}

\* the objects of the bucket that are no uploads: what compose created
OutputObjects == DOMAIN store \ UploadNames

\* the header's bytes, then the bytes of the listed bodies in ascending order
ExpectedContent(listed) ==
    <<"h">> \o (IF N_body0 \in listed THEN <<"b0">> ELSE <<>>)
            \o (IF N_body1 \in listed THEN <<"b1">> ELSE <<>>)

\* C1: for the creation event of the header N_header in the bucket, when the
\* header and its BODY objects are the only objects under the staging prefix
\* and every store call succeeds, main() ends having created the object
\* <site_folder>/<site_name>_..._boxfolder_<12>_fileid_<13>.csv with the
\* header's bytes followed by the bodies' bytes in ascending key order, and
\* having deleted every source object.
C1_EndToEndReassembly ==
    \A p \in Procs :
        LET v == inv[p]
            listed == {v.blob_list[j] : j \in DOMAIN v.blob_list}
        IN  (/\ Finished(v)
             /\ v.name = N_header /\ v.bucket = B_prod
             /\ OkCallsOf(v, "list") # {}
             /\ listed = {N_header, N_body0, N_body1}
             /\ Clean(v)
             /\ ~uploaded)
            => /\ v.res = "return"
               /\ O_SiteA \in DOMAIN store
               /\ store[O_SiteA] = ExpectedContent(listed)
               /\ listed \cap DOMAIN store = {}

\* C2: when main() is invoked twice in succession with the same
\* header-creation event and no object is created meanwhile, then after the
\* second invocation exactly one canonical output object exists, its content
\* is the one the first invocation wrote, the staging prefix holds no object,
\* and the second invocation composed nothing and deleted nothing.
C2_Idempotence ==
    \A p \in Procs :
        LET v == inv[p]
        IN  (/\ Finished(v)
             /\ v.name = N_header /\ v.bucket = B_prod
             /\ v.again /\ v.before_clean
             /\ Clean(v)
             /\ ~uploaded)
            => /\ Cardinality(OutputObjects) = 1
               /\ \A k \in OutputObjects : store[k] = v.before
               /\ \A k \in DOMAIN store :
                      ~StartsWith(Chars(k), Chars(v.site_tmp_folder))
               /\ OkCallsOf(v, "compose") = {}
               /\ CallsOf(v, "delete") = {}

\* C3: when generate_output_file_path returns None for the triggering header
\* key, main() aborts without any list, compose or delete call.
C3_NullOutputAborts ==
    \A p \in Procs :
        LET v == inv[p]
        IN  (/\ v.name \in UploadNames /\ v.bucket = B_prod
             /\ HeaderTagged(v.name)
             /\ generate_output_file_path(
                    Chars(v.bucket) \o S_slash \o Chars(v.name)) = None)
            => /\ v.calls = <<>>
               /\ Finished(v) => v.res = "raise"

\* C4: once an invocation has created the canonical output, a later
\* invocation for the same header key (here the next one, with no object
\* created meanwhile) leaves the content of the canonical output unchanged,
\* whatever the deletes of the first invocation did.
C4_RedeliveryKeepsOutput ==
    \A p \in Procs :
        LET v == inv[p]
        IN  (/\ v.again
             /\ v.before # <<>>
             /\ HeaderTagged(v.name)
             /\ ~uploaded)
            => /\ v.output_file_name \in DOMAIN store
               /\ store[v.output_file_name] = v.before

\* C5: an event whose object name is not classified as a header makes main()
\* return with no list, compose or delete call, and the step that handles it
\* leaves the bucket as it is.
C5_NonHeaderNoCalls ==
    /\ [](\A p \in Procs :
            (inv[p].name # Absent /\ ~HeaderTagged(inv[p].name))
            => /\ inv[p].calls = <<>>
               /\ inv[p].pc = "idle"
               /\ inv[p].res = "return")
    /\ [][\A p \in Procs :
            (/\ inv'[p] # inv[p]
             /\ inv'[p].name # Absent
             /\ ~HeaderTagged(inv'[p].name))
            => store' = store]_vars

C5_Witness ==
    /\ inv[1].name = N_body0
    /\ inv[1].res = "return"
    /\ inv[1].calls = <<>>
    /\ {N_header, N_body0} \subseteq DOMAIN store

\* C9: an object is deleted only after the compose call of the same
\* invocation succeeded with that object among its sources; when the compose
\* call fails the invocation ends with an exception and every listed object
\* is still in the bucket.
C9_DeleteOnlyAfterCompose ==
    \A p \in Procs :
        LET v == inv[p]
            c == v.calls
        IN  /\ \A j \in CallsOf(v, "delete") :
                 \E i \in OkCallsOf(v, "compose") :
                     /\ i < j
                     /\ \E x \in DOMAIN c[i].list : c[i].list[x] = c[j].arg
            /\ (CallsOf(v, "compose") # {} /\ OkCallsOf(v, "compose") = {})
               => /\ v.pc = "idle" /\ v.res = "raise"
                  /\ CallsOf(v, "delete") = {}
                  /\ \A x \in DOMAIN v.blob_list : v.blob_list[x] \in DOMAIN store

C9_Witness ==
    /\ Finished(inv[1])
    /\ inv[1].output_file_name = O_prod_SiteA
    /\ Len(inv[1].blob_list) = 2
    /\ CallsOf(inv[1], "compose") # {}
    /\ OkCallsOf(inv[1], "compose") = {}

\* C10: after the compose succeeded, every listed object gets exactly one
\* delete attempt, in the order of the list, whether or not an earlier delete
\* failed; main() then returns, and the composed output stays in place.
C10_BestEffortDelete ==
    \A p \in Procs :
        LET v == inv[p]
            c == v.calls
            dels == CallsOf(v, "delete")
        IN  OkCallsOf(v, "compose") # {}
            => /\ v.pc \in {"delete", "idle"}
               /\ Len(c) = 2 + Cardinality(dels)
               /\ \A j \in dels : j > 2 /\ c[j].arg = v.blob_list[j - 2]
               /\ v.pc = "idle" => /\ v.res = "return"
                                   /\ Cardinality(dels) = Len(v.blob_list)
               /\ v.output_file_name \in DOMAIN store
               /\ store[v.output_file_name] = c[2].data

C10_Witness ==
    /\ Finished(inv[1])
    /\ OkCallsOf(inv[1], "compose") # {}
    /\ Len(inv[1].blob_list) = 3
    /\ inv[1].calls[3].res = "error"
    /\ inv[1].calls[4].res = "ok"
    /\ inv[1].calls[5].res = "error"

\* the listing of the invocation came back empty
ListedEmpty(v) ==
    \E j \in OkCallsOf(v, "list") : v.calls[j].list = <<>>

\* C11: when the listing of the staging prefix in a header-triggered
\* invocation is empty, no compose request succeeds and no delete is
\* attempted, and main() ends with an exception (blob_list[0] in
\* concatenate_blobs); the step that ends it leaves the bucket as it is.
C11_EmptyListingRaises ==
    /\ [](\A p \in Procs :
            ListedEmpty(inv[p])
            => /\ inv[p].pc \in {"compose", "idle"}
               /\ OkCallsOf(inv[p], "compose") = {}
               /\ CallsOf(inv[p], "delete") = {}
               /\ inv[p].pc = "idle" => inv[p].res = "raise")
    /\ [][\A p \in Procs :
            (ListedEmpty(inv[p]) /\ inv'[p] # inv[p])
            => store' = store]_vars

C11_Witness ==
    /\ Finished(inv[1])
    /\ ListedEmpty(inv[1])
    /\ inv[1].output_file_name = O_prod_SiteA
    /\ inv[1].res = "raise"
    /\ N_gsheader \in DOMAIN store

\* C12: every event that lacks the 'name' field or the 'bucket' field makes
\* main() end with an exception and with no list, compose or delete call;
\* no such event ends with main() returning.
C12_MalformedEventRaises ==
    \A p \in Procs :
        LET v == inv[p]
        IN  (/\ v.res # "none"
             /\ (v.name = Absent \/ v.bucket = Absent))
            => /\ v.pc = "idle"
               /\ v.res = "raise"
               /\ v.calls = <<>>

\* the only store calls of the invocation that failed are deletes of objects
\* that another invocation deleted
OnlyLostDeletes(p) ==
    \A j \in DOMAIN inv[p].calls :
        inv[p].calls[j].res = "error"
        => /\ inv[p].calls[j].op = "delete"
           /\ \E q \in Procs \ {p} : \E k \in OkCallsOf(inv[q], "delete") :
                  inv[q].calls[k].arg = inv[p].calls[j].arg

\* C13: for two overlapping invocations of main() on header events of the
\* same staging folder, under every interleaving of their list, compose and
\* delete steps (the store refusing nothing but the delete of an object the
\* other invocation has deleted), once both have ended and the output object
\* exists, its content is the header followed by every body of the export.
C13_ConcurrentOutputComplete ==
    (/\ \A p \in Procs : Finished(inv[p]) /\ OnlyLostDeletes(p)
     /\ O_prod_SiteA \in DOMAIN store)
    => store[O_prod_SiteA] = <<"h", "b0", "b1">>

\* the body has left the staging folder and its bytes are in an output object
Consumed(b) ==
    /\ b \notin DOMAIN store
    /\ \E k \in OutputObjects :
         \E j \in DOMAIN store[k] : <<store[k][j]>> = ContentOf(b)

\* a store call of the running or last invocation failed
StoreRefused == \E p \in Procs : ~Clean(inv[p])

\* C14: for any order in which the objects of one export are created and
\* their creation events delivered, when the store refuses no call, each
\* body object placed under the staging prefix is eventually included in the
\* output object and deleted from staging.
C14_BodiesEventuallyConsumed ==
    ([]~StoreRefused) =>
        \A b \in {N_body0, N_body1} : (b \in DOMAIN store) ~> Consumed(b)

\* the object name carries the same file id as the name of the event
SameExport(name, trigger) ==
    \E d \in {S_d13, S_d13b} :
        /\ HasSub(Chars(name), S_file_id \o d)
        /\ HasSub(Chars(trigger), S_file_id \o d)

\* C15: every object that a header-triggered invocation lists, composes or
\* deletes belongs to the export of the triggering header (same file id);
\* with two exports staged in the same tmp folder, the objects of the other
\* export stay in the bucket.
C15_ExportIsolation ==
    /\ \A p \in Procs : \A j \in DOMAIN inv[p].calls :
         LET c == inv[p].calls[j]
         IN  /\ \A x \in DOMAIN c.list : SameExport(c.list[x], inv[p].name)
             /\ c.op = "delete" => SameExport(c.arg, inv[p].name)
    /\ N_header2 \in DOMAIN store

\* the positions of the compose requests that reached the store
ComposeRequests(v) ==
    {j \in CallsOf(v, "compose") : v.calls[j].res \in {"ok", "error"}}

\* C16: in every header-triggered invocation that reaches the compose step,
\* the ordered list passed to compose holds exactly one object whose key
\* contains "HEADER", it is the first element, and all remaining elements
\* are body objects.
C16_OneHeaderFirst ==
    \A p \in Procs : \A j \in ComposeRequests(inv[p]) :
        LET l == inv[p].calls[j].list
        IN  /\ Cardinality({x \in DOMAIN l : HasSub(Chars(l[x]), S_HEADER)}) = 1
            /\ HasSub(Chars(l[1]), S_HEADER)
            /\ \A x \in 2..Len(l) : HasSub(Chars(l[x]), S_BODY_mark)

\* the names whose creation event the platform has delivered to main()
Delivered == ever \ pending

\* C17: a list, compose or delete call is performed only by an invocation to
\* which the platform has delivered the creation event of an object; loading
\* the module performs none.
C17_StoreOnlyOnEvents ==
    \A p \in Procs : inv[p].calls # <<>> => inv[p].name \in Delivered

\* C18: the creation event of an output object (its name produced by
\* generate_output_file_path) is never classified as a header by
\* is_header_file, and no object name is both classified as a header by the
\* engine and accepted for export by the relay's fileToBeExported.
C18_NoReingestion ==
    ret.fn = "created" =>
        /\ ret.val.output => ~ret.val.header
        /\ ~(ret.val.header /\ ret.val.export)

C18_Witness ==
    /\ ret.fn = "created"
    /\ ret.val.output
    /\ ret.val.export
    /\ HasSub(codec_in, S_tmp_slash)
    /\ HasSub(codec_in, S_HEADER)

\* C19: for every header key for which an output key is derived, the output
\* key does not start with the prefix passed to the listing, and the output
\* object is never among the objects listed, never a source of a compose and
\* never deleted by the engine.
C19_OutputOutsideStaging ==
    \A p \in Procs :
        LET v == inv[p]
        IN  v.output_file_name # "None"
            => /\ ~StartsWith(Chars(v.output_file_name), Chars(v.site_tmp_folder))
               /\ \A j \in DOMAIN v.calls :
                    /\ \A x \in DOMAIN v.calls[j].list :
                         v.calls[j].list[x] # v.output_file_name
                    /\ v.calls[j].op = "delete"
                       => v.calls[j].arg # v.output_file_name

====
